---- MODULE Spec2Model ----
(***************************************************************************)
(* Model of app.py, the Flask backend of the home-care intake service:     *)
(* the sliding-window rate limiter (request_log, _clear_expired,           *)
(* is_rate_limited), the anti-forgery token kept in the session            *)
(* (issue_csrf_token), the before_request hook apply_simple_rate_limit and *)
(* the two submission handlers request_care and submit_appointment.        *)
(*                                                                         *)
(* Time is an integer count of ticks, TicksPerSecond ticks to the second,  *)
(* so that time.time() (a float) can fall inside a second and int() can    *)
(* truncate it.                                                            *)
(***************************************************************************)
EXTENDS Integers, Sequences, FiniteSets, Bags, TLC

\* ------------------------------------------------------------------------
\* Program constants
\* ------------------------------------------------------------------------
RATE_LIMIT_MAX == 5
RATE_LIMIT_WINDOW == 600
MIN_FILL_SECONDS == 3

\* ------------------------------------------------------------------------
\* Bounds of the model
\* ------------------------------------------------------------------------
\* Resolution of the clock: ticks per second.
TicksPerSecond == 2
\* Clock advances allowed in one behaviour of SpecSeq and SpecConc.
MaxAdvances == 3
\* Sequential is_rate_limited calls in one behaviour of SpecSeq.
MaxCalls == 7
\* Concurrent is_rate_limited calls in one behaviour of SpecConc.
NumThreads == 6

WindowTicks == RATE_LIMIT_WINDOW * TicksPerSecond
MinFillTicks == MIN_FILL_SECONDS * TicksPerSecond
\* The clock starts inside a second, well after the epoch.
StartTicks == 10 * TicksPerSecond + 1

\* Client identities: the value of X-Forwarded-For / remote_addr. The empty
\* string stands for an empty or missing origin.
NoIdentity == ""
Identities == {NoIdentity, "10.0.0.1"}

VARIABLES
    now,          \* time.time(), in ticks
    advances,     \* clock advances taken so far
    request_log,  \* request_log: identity -> deque of timestamps (oldest first)
    calls,        \* SpecSeq: is_rate_limited calls made so far
    lastCall,     \* SpecSeq: the last is_rate_limited call and its result
    admitted,     \* SpecSeq: history, per identity, of the admitted call times
    threads,      \* SpecConc: bag of the local states of the running calls
    started,      \* SpecConc: calls started so far
    jar,          \* Spec: the session of the browser (session['csrf_token'],
                  \*       session['form_time'])
    views,        \* Spec: page views made so far
    last,         \* Spec: the last request handled, and its response
    streak,       \* Spec: history: the run of POSTs not answered 429 that the
                  \*       last POSTs of one endpoint and identity form
    varied,       \* Spec: POSTs handled so far other than the plain one
    spent         \* Spec: history: the tokens that were the session's token
                  \*       when a submission was answered

limiterVars == <<now, advances, request_log>>
seqVars == <<calls, lastCall, admitted>>
concVars == <<threads, started>>
pipeVars == <<jar, views, last, streak, varied, spent>>
vars == <<now, advances, request_log, calls, lastCall, admitted, threads, started,
          jar, views, last, streak, varied, spent>>

\* ------------------------------------------------------------------------
\* The limiter (app.py lines 20-38)
\* ------------------------------------------------------------------------

\* The loop condition of _clear_expired with the comparison non-strict.
ExpiredInclusive(window, now_ts) ==
    window # <<>> /\ now_ts - Head(window) >= WindowTicks

\* The loop condition of _clear_expired with the operands of the difference
\* exchanged.
ExpiredSwapped(window, now_ts) ==
    window # <<>> /\ Head(window) - now_ts > WindowTicks

\* while window and now_ts - window[0] > RATE_LIMIT_WINDOW
Expired(window, now_ts) ==
    window # <<>> /\ now_ts - Head(window) > WindowTicks

\* _clear_expired emptying the window whatever the age of its entries.
ClearEverything(window, now_ts) == <<>>

RECURSIVE _clear_expired(_, _)
\* _clear_expired: pop from the left while the oldest entry is expired.
_clear_expired(window, now_ts) ==
    IF Expired(window, now_ts)
    THEN _clear_expired(Tail(window), now_ts)
    ELSE window

\* is_rate_limited recording the time of a rejected call too.
RecordsRejected(window, now_ts) ==
    LET cleared == _clear_expired(window, now_ts)
    IN  [limited |-> Len(cleared) >= RATE_LIMIT_MAX, window |-> Append(cleared, now_ts)]

\* is_rate_limited with the length compared strictly: one call more admitted.
AdmitsOneMore(window, now_ts) ==
    LET cleared == _clear_expired(window, now_ts)
    IN  IF Len(cleared) > RATE_LIMIT_MAX
        THEN [limited |-> TRUE, window |-> cleared]
        ELSE [limited |-> FALSE, window |-> Append(cleared, now_ts)]

\* is_rate_limited run without interruption on the window of one identity:
\* the value returned and the window left behind.
is_rate_limited(window, now_ts) ==
    LET cleared == _clear_expired(window, now_ts)
    IN  IF Len(cleared) >= RATE_LIMIT_MAX
        THEN [limited |-> TRUE, window |-> cleared]
        ELSE [limited |-> FALSE, window |-> Append(cleared, now_ts)]

\* ------------------------------------------------------------------------
\* Strings and JSON values
\*
\* A string is a sequence of one-character strings. A JSON value of a
\* payload is a string, a number (a value that is not a string), or absent.
\* ------------------------------------------------------------------------
Str(s) == [kind |-> "str", s |-> s]
Absent == [kind |-> "absent", s |-> <<>>]
Number == [kind |-> "number", s |-> <<>>]

IsSpace(c) == c = " "

RECURSIVE lstrip(_)
lstrip(s) == IF s # <<>> /\ IsSpace(Head(s)) THEN lstrip(Tail(s)) ELSE s

RECURSIVE rstrip(_)
rstrip(s) ==
    IF s # <<>> /\ IsSpace(s[Len(s)]) THEN rstrip(SubSeq(s, 1, Len(s) - 1)) ELSE s

\* str.strip()
strip(s) == rstrip(lstrip(s))

\* EMAIL_REGEX.match(s) for ^[^@\s]+@[^@\s]+\.[^@\s]+$ : one "@", at i, with
\* something before it; a "." at j with something between i and j and
\* something after j; no other "@" and no whitespace anywhere.
EMAIL_REGEX(s) ==
    \E i \in 2..Len(s) :
        /\ s[i] = "@"
        /\ \A k \in (1..Len(s)) \ {i} : s[k] # "@" /\ ~IsSpace(s[k])
        /\ \E j \in (i + 2)..(Len(s) - 1) : s[j] = "."

\* Index of the first ">" of s at or after position i, 0 when there is none.
RECURSIVE NextClose(_, _)
NextClose(s, i) ==
    IF i > Len(s) THEN 0
    ELSE IF s[i] = ">" THEN i
    ELSE NextClose(s, i + 1)

\* re.sub(r'<[^>]+>', '', s) from position i on: a "<" followed by at least
\* one character other than ">" and then a ">" is removed with all between.
RECURSIVE StripTags(_, _)
StripTags(s, i) ==
    IF i > Len(s) THEN <<>>
    ELSE LET j == NextClose(s, i + 1)
         IN  IF s[i] = "<" /\ j > i + 1
             THEN StripTags(s, j + 1)
             ELSE <<s[i]>> \o StripTags(s, i + 1)

\* sanitize(value) for a string value.
sanitize(s) == IF s = <<>> THEN <<>> ELSE strip(StripTags(s, 1))

\* ------------------------------------------------------------------------
\* The forms
\* ------------------------------------------------------------------------
Endpoints == {"request_care", "submit_appointment"}

\* required_fields of each handler, in the order of the dictionary.
RequiredFields(endpoint) ==
    IF endpoint = "request_care"
    THEN <<"full_name", "phone", "email", "address", "start_date", "care_type">>
    ELSE <<"full_name", "email", "phone", "preferred_date", "preferred_time">>

\* The keys copied into safe_payload.
SafeKeys(endpoint) ==
    IF endpoint = "request_care"
    THEN <<"full_name", "phone", "email", "address", "start_date", "care_type", "notes">>
    ELSE <<"full_name", "email", "phone", "preferred_date", "preferred_time", "reason">>

\* The honeypot field each handler looks at.
HoneypotField(endpoint) ==
    IF endpoint = "request_care" THEN "service_interest" ELSE "appointment_guard"

HoneypotFields == {"service_interest", "appointment_guard"}

Range(seq) == {seq[i] : i \in 1..Len(seq)}

\* The required fields and the fields of each form, as sets.
Required == [e \in Endpoints |-> Range(RequiredFields(e))]
FormFields == [e \in Endpoints |-> Range(SafeKeys(e))]

AllFields ==
    FormFields["request_care"] \cup FormFields["submit_appointment"] \cup HoneypotFields

\* payload.get(field, '')
Get(payload, field) ==
    IF payload[field].kind = "absent" THEN Str(<<>>) ELSE payload[field]

\* bool(value)
Truthy(v) == v.kind = "number" \/ (v.kind = "str" /\ v.s # <<>>)

\* ------------------------------------------------------------------------
\* The session and the token (app.py lines 48-52)
\*
\* A session is [csrf_token, form_time]; the fields issued and by are
\* history, not read by the program: the time.time() of the issuance before
\* int() truncates it, and the kind of response that issued the token
\* ("view" for a page, "sent" for an accepted submission, "error" for any
\* other answer of a handler or of the hook). The tokens are numbered in the
\* order of their issuance.
\* ------------------------------------------------------------------------
NoToken == 0

NoSession == [csrf_token |-> NoToken, form_time |-> 0, issued |-> 0, by |-> ""]

\* int(time.time()): whole seconds.
IntSeconds(t) == t \div TicksPerSecond

\* issue_csrf_token storing the next whole second instead of the current one.
IssueRoundedUp(token, t) ==
    [csrf_token |-> token, form_time |-> IntSeconds(t) + 1, issued |-> t, by |-> ""]

\* issue_csrf_token: the session after the call; token is the value drawn by
\* secrets.token_hex(16), a value never drawn before.
issue_csrf_token(token, t) ==
    [csrf_token |-> token, form_time |-> IntSeconds(t), issued |-> t, by |-> ""]

\* ------------------------------------------------------------------------
\* Initial state
\* ------------------------------------------------------------------------
NoCall == [ip |-> NoIdentity, at |-> 0, limited |-> FALSE, before |-> <<>>, rejects |-> 0]

NoPayload == [f \in AllFields |-> Absent]

NoMail == [f \in {} |-> <<>>]

NoStreak == [endpoint |-> "", ip |-> NoIdentity, count |-> 0, since |-> 0, rejected |-> TRUE]

NoRequest ==
    [seq |-> 0, method |-> "NONE", endpoint |-> "", ip |-> NoIdentity, body |-> "",
     payload |-> NoPayload, token |-> NoToken, sess |-> NoSession, at |-> 0,
     consulted |-> FALSE, log_before |-> <<>>, streak_before |-> 0, reused |-> FALSE,
     rejected_before |-> FALSE,
     status |-> 0, success |-> FALSE, reason |-> "", csrf_token |-> NoToken,
     errors |-> {}, notified |-> FALSE, mail |-> NoMail]

Init ==
    /\ now = StartTicks
    /\ advances = 0
    /\ request_log = [ip \in Identities |-> <<>>]
    /\ calls = 0
    /\ lastCall = NoCall
    /\ admitted = [ip \in Identities |-> <<>>]
    /\ threads = EmptyBag
    /\ started = 0
    /\ jar = NoSession
    /\ views = 0
    /\ last = NoRequest
    /\ streak = NoStreak
    /\ varied = 0
    /\ spent = {}

\* ------------------------------------------------------------------------
\* The clock
\* ------------------------------------------------------------------------
\* The clock advances by one of the given steps, at most max times in one
\* behaviour; it never goes back.
Advance(steps, max, spare) ==
    /\ advances < max
    /\ \E d \in steps : now' = now + d
    /\ advances' = advances + 1
    /\ UNCHANGED request_log
    /\ UNCHANGED spare

\* ------------------------------------------------------------------------
\* Sequential calls of is_rate_limited (SpecSeq)
\* ------------------------------------------------------------------------
\* Rejections of the identity's calls since its last admitted call.
RejectsBefore(ip) ==
    IF lastCall.ip = ip /\ lastCall.limited /\ calls > 0 THEN lastCall.rejects + 1 ELSE 0

LimiterCall(ip) ==
    /\ calls < MaxCalls
    /\ calls' = calls + 1
    /\ LET r == is_rate_limited(request_log[ip], now)
       IN  /\ request_log' = [request_log EXCEPT ![ip] = r.window]
           /\ lastCall' = [ip |-> ip, at |-> now, limited |-> r.limited,
                           before |-> request_log[ip], rejects |-> RejectsBefore(ip)]
           /\ admitted' = IF r.limited THEN admitted
                          ELSE [admitted EXCEPT ![ip] = Append(@, now)]
    /\ UNCHANGED <<now, advances>>
    /\ UNCHANGED <<concVars, pipeVars>>

\* Clock steps between sequential calls: one tick, exactly the length of the
\* window, and one tick more than the window.
SeqClockSteps == {1, WindowTicks, WindowTicks + 1}

AdvanceSeq == Advance(SeqClockSteps, MaxAdvances, <<seqVars, concVars, pipeVars>>)

NextSeq ==
    \/ AdvanceSeq
    \/ \E ip \in Identities : LimiterCall(ip)

SpecSeq == Init /\ [][NextSeq]_vars

\* C1: under sequential calls and a clock that never goes back, a call made
\* while the identity's window holds RATE_LIMIT_MAX admissions and at most
\* RATE_LIMIT_WINDOW seconds (exactly that many included) after the oldest of
\* them is rejected; and no admitted call has more than RATE_LIMIT_MAX
\* admitted calls of its identity (itself included) in the window that ends
\* with it.
C1_NoMoreThanMaxPerWindow ==
    /\ (/\ calls > 0
        /\ Len(lastCall.before) >= RATE_LIMIT_MAX
        /\ lastCall.at - Head(lastCall.before) <= WindowTicks)
       => lastCall.limited
    /\ \A ip \in Identities : \A i \in 1..Len(admitted[ip]) :
          Cardinality({j \in 1..i : admitted[ip][i] - admitted[ip][j] <= WindowTicks})
             <= RATE_LIMIT_MAX

\* A call rejected exactly RATE_LIMIT_WINDOW seconds after the oldest of the
\* RATE_LIMIT_MAX recorded admissions.
C1_Witness ==
    /\ calls > 0
    /\ lastCall.limited
    /\ Len(lastCall.before) = RATE_LIMIT_MAX
    /\ lastCall.at - Head(lastCall.before) = WindowTicks

\* C10: a call made strictly later than RATE_LIMIT_WINDOW seconds after the
\* oldest timestamp of a full window is admitted, however many calls were
\* rejected before it: rejected calls record nothing, so they do not postpone
\* the moment capacity returns, and under a clock that keeps advancing that
\* moment comes.
C10_AdmittedAfterWindow ==
    (/\ calls > 0
     /\ Len(lastCall.before) = RATE_LIMIT_MAX
     /\ lastCall.at > Head(lastCall.before) + WindowTicks)
    => ~lastCall.limited

\* A call admitted on a window that was full, one tick after the oldest
\* entry left the window, right after rejected calls of the same identity.
C10_Witness ==
    /\ calls > 0
    /\ Len(lastCall.before) = RATE_LIMIT_MAX
    /\ lastCall.at = Head(lastCall.before) + WindowTicks + 1
    /\ lastCall.rejects >= 1
    /\ ~lastCall.limited

\* ------------------------------------------------------------------------
\* Concurrent calls of is_rate_limited for one identity (SpecConc)
\*
\* request_log is a module-level dictionary shared by every request thread
\* and is_rate_limited takes no lock, so the threads interleave between the
\* loop test and the popleft of _clear_expired, between _clear_expired and
\* the length check, and between the length check and the append. A thread
\* is [pc, now_ts]; the threads are kept as a bag, their names do not
\* matter.
\* ------------------------------------------------------------------------
ConcIdentity == "10.0.0.1"

Window == request_log[ConcIdentity]

Thread(pc, now_ts) == [pc |-> pc, now_ts |-> now_ts]

\* The thread t moves to t2, and the window becomes w.
Move(t, t2, w) ==
    /\ BagIn(t, threads)
    /\ threads' = (threads (-) SetToBag({t})) (+) SetToBag({t2})
    /\ request_log' = [request_log EXCEPT ![ConcIdentity] = w]
    /\ UNCHANGED <<now, advances, started>>
    /\ UNCHANGED <<seqVars, pipeVars>>

\* now_ts = time.time(), then the call of _clear_expired.
ConcCall ==
    /\ started < NumThreads
    /\ started' = started + 1
    /\ threads' = threads (+) SetToBag({Thread("test", now)})
    /\ UNCHANGED <<now, advances, request_log>>
    /\ UNCHANGED <<seqVars, pipeVars>>

\* while window and now_ts - window[0] > RATE_LIMIT_WINDOW
ConcTest ==
    \E t \in BagToSet(threads) :
        /\ t.pc = "test"
        /\ Move(t, Thread(IF Expired(Window, t.now_ts) THEN "pop" ELSE "check", t.now_ts),
                Window)

\* window.popleft(); on an empty deque it raises IndexError and the call ends.
ConcPop ==
    \E t \in BagToSet(threads) :
        /\ t.pc = "pop"
        /\ IF Window = <<>>
           THEN Move(t, Thread("error", t.now_ts), Window)
           ELSE Move(t, Thread("test", t.now_ts), Tail(Window))

\* if len(request_log[ip]) >= RATE_LIMIT_MAX: return True
ConcCheck ==
    \E t \in BagToSet(threads) :
        /\ t.pc = "check"
        /\ Move(t, Thread(IF Len(Window) >= RATE_LIMIT_MAX THEN "limited" ELSE "append",
                          t.now_ts), Window)

\* request_log[ip].append(now_ts); return False
ConcAppend ==
    \E t \in BagToSet(threads) :
        /\ t.pc = "append"
        /\ Move(t, Thread("admitted", t.now_ts), Append(Window, t.now_ts))

\* Between concurrent calls the clock stands or jumps past the window.
ConcClockSteps == {WindowTicks + 1}

AdvanceConc == Advance(ConcClockSteps, MaxAdvances, <<seqVars, concVars, pipeVars>>)

\* Threads of the bag at one of the given positions.
CountAt(pcs) ==
    LET S == {t \in BagToSet(threads) : t.pc \in pcs}
        RECURSIVE Sum(_)
        Sum(T) == IF T = {} THEN 0
                  ELSE LET t == CHOOSE x \in T : TRUE
                       IN  CopiesIn(t, threads) + Sum(T \ {t})
    IN  Sum(S)

NextConc ==
    \/ AdvanceConc
    \/ ConcCall
    \/ ConcTest
    \/ ConcPop
    \/ ConcCheck
    \/ ConcAppend

SpecConc == Init /\ [][NextConc]_vars

\* C2: when NumThreads > RATE_LIMIT_MAX calls for one identity run
\* concurrently against an empty window, exactly RATE_LIMIT_MAX are admitted
\* and the others are rejected; the window never exceeds RATE_LIMIT_MAX
\* entries.
C2_ExactlyMaxAdmitted ==
    /\ advances = 0 => Len(Window) <= RATE_LIMIT_MAX
    /\ (/\ advances = 0
        /\ started = NumThreads
        /\ CountAt({"admitted", "limited"}) = NumThreads)
       => /\ CountAt({"admitted"}) = RATE_LIMIT_MAX
          /\ CountAt({"limited"}) = NumThreads - RATE_LIMIT_MAX

\* ------------------------------------------------------------------------
\* The submission endpoints (Spec): requests are handled one at a time
\* ------------------------------------------------------------------------
\* POSTs handled and page views made, at most; and, among the POSTs, those
\* that are not the plain one (a JSON object with valid fields, answered ok
\* by the notifier when it gets there).
MaxRequests == 6
MaxViews == 1
MaxVaried == 1
\* Clock advances allowed in one behaviour of Spec.
MaxPipeAdvances == 1

\* The body of a POST: not JSON (request.is_json is false), JSON by its
\* content type but unparsable (request.get_json() raises BadRequest), or a
\* JSON object.
Bodies == {"nonjson", "badjson", "json"}

Pages == {"index", "contact", "appointment", "team", "thank_you"}

\* The pages whose view calls issue_csrf_token.
FormPages == {"index", "contact", "appointment"}

\* Values tried for the fields of a form.
Good == Str(<<"a">>)
GoodEmail == Str(<<"a", "@", "b", ".", "c">>)
Tagged == Str(<<"<", "b", ">", "h", "i">>)
FieldTests == {Number, Str(<<" ">>), Str(<<"<", "b", ">">>), Str(<<" ", "a", " ">>)}
EmailTests ==
    {Str(<<"a", "b">>), Str(<<"a", "@", "b">>), Str(<<"a", " ", "@", "b", ".", "c">>)}

\* A payload with every field of the form valid and no honeypot.
ValidPayload ==
    [e \in Endpoints |->
        [f \in AllFields |->
            IF f \in Required[e]
            THEN (IF f = "email" THEN GoodEmail ELSE Good)
            ELSE IF f \in FormFields[e] THEN Tagged
            ELSE Absent]]

\* The payloads tried whatever the request: the valid one, the valid one with
\* one of the honeypot fields filled, and one with a required field missing.
CorePayloads(endpoint) ==
    LET base == ValidPayload[endpoint]
    IN  {base, [base EXCEPT !["full_name"] = Absent]}
        \cup {[base EXCEPT ![h] = Good] : h \in HoneypotFields}

\* The payloads tried in the requests whose fields the handler reads: each
\* required field missing; the name and the email not a string, blank, a tag
\* alone, padded; malformed emails; two fields in error; the free-text field
\* absent or not a string.
Payloads(endpoint) ==
    LET base == ValidPayload[endpoint]
        req == Required[endpoint]
        free == CHOOSE f \in FormFields[endpoint] : f \notin req
    IN  CorePayloads(endpoint)
        \cup {[base EXCEPT ![f] = Absent] : f \in req}
        \cup {[base EXCEPT ![f] = v] : f \in {"full_name", "email"}, v \in FieldTests}
        \cup {[base EXCEPT !["email"] = v] : v \in EmailTests}
        \cup {[base EXCEPT !["full_name"] = Absent, !["email"] = Str(<<"a", "b">>)],
              [base EXCEPT !["full_name"] = Absent, !["phone"] = Str(<<" ">>)]}
        \cup {[base EXCEPT ![free] = v] : v \in {Absent, Number}}

\* The hook with the test of the identity left out.
LimiterConsultedAnyIdentity(endpoint, ip) == endpoint = "request_care"

\* The hook with the wrong endpoint name.
LimiterConsultedAppointment(endpoint, ip) ==
    endpoint = "submit_appointment" /\ ip # NoIdentity

\* The hook registered for GET alone: no POST is limited.
LimiterConsultedNever(endpoint, ip) == FALSE

\* apply_simple_rate_limit, for a POST: the hook calls is_rate_limited when
\* the endpoint is request_care and client_ip is not empty.
LimiterConsulted(endpoint, ip) ==
    endpoint = "request_care" /\ ip # NoIdentity

\* The handler without its honeypot check.
HoneypotIgnored(endpoint, payload) == FALSE

\* if payload.get('service_interest') / if payload.get('appointment_guard')
Honeypot(endpoint, payload) == Truthy(payload[HoneypotField(endpoint)])

\* if not csrf_token or csrf_token != session.get('csrf_token')
TokenMismatch(token, sess) == token = NoToken \/ token # sess.csrf_token

\* if not form_time or time.time() - form_time < 3
TooQuick(sess, t) ==
    sess.form_time = 0 \/ t - sess.form_time * TicksPerSecond < MinFillTicks

\* payload.get(field, '').strip() raises AttributeError when the value of a
\* required field is not a string.
FieldCrash(endpoint, payload) ==
    \E f \in Required[endpoint] : Get(payload, f).kind # "str"

\* The validation returning at its first error instead of collecting them.
FirstErrorOnly(endpoint, payload) ==
    LET missing == {g \in Required[endpoint] : strip(Get(payload, g).s) = <<>>}
        email_value == strip(Get(payload, "email").s)
    IN  IF missing # {} THEN {<<CHOOSE f \in missing : TRUE, "required">>}
        ELSE IF email_value # <<>> /\ ~EMAIL_REGEX(email_value)
             THEN {<<"email", "format">>}
             ELSE {}

\* errors: the fields that have an entry, each with the kind of its message.
FieldErrors(endpoint, payload) ==
    LET email_value == strip(Get(payload, "email").s)
        format == email_value # <<>> /\ ~EMAIL_REGEX(email_value)
    IN  {<<f, "required">> : f \in {g \in Required[endpoint] :
                                        strip(Get(payload, g).s) = <<>>}}
        \cup (IF format THEN {<<"email", "format">>} ELSE {})

\* sanitize raises TypeError in re.sub when a value is true and not a string.
SanitizeCrash(endpoint, payload) ==
    \E k \in FormFields[endpoint] : Get(payload, k).kind # "str"

\* safe_payload
safe_payload(endpoint, payload) ==
    [k \in FormFields[endpoint] |-> sanitize(Get(payload, k).s)]

\* The path of a POST were the honeypot looked at before the limiter's answer.
OutcomeHoneypotFirst(endpoint, body, payload, token, sess, limited, t, ok) ==
    IF body = "json" /\ Truthy(payload[HoneypotField(endpoint)]) THEN "honeypot"
    ELSE IF limited THEN "rate_limited"
    ELSE IF body = "nonjson" THEN "format"
    ELSE IF body = "badjson" THEN "bad_json"
    ELSE IF TokenMismatch(token, sess) THEN "csrf"
    ELSE IF TooQuick(sess, t) THEN "bot_timing"
    ELSE IF FieldCrash(endpoint, payload) THEN "crash"
    ELSE IF FieldErrors(endpoint, payload) # {} THEN "validation"
    ELSE IF SanitizeCrash(endpoint, payload) THEN "crash"
    ELSE IF ok THEN "sent"
    ELSE "send_failed"

\* The path a POST takes through the hook and the handler: which return (or
\* exception) ends it. limited is the answer of is_rate_limited when the hook
\* consulted it, ok the answer of the notifier.
Outcome(endpoint, body, payload, token, sess, limited, t, ok) ==
    IF limited THEN "rate_limited"
    ELSE IF body = "nonjson" THEN "format"
    ELSE IF body = "badjson" THEN "bad_json"
    ELSE IF Honeypot(endpoint, payload) THEN "honeypot"
    ELSE IF TokenMismatch(token, sess) THEN "csrf"
    ELSE IF TooQuick(sess, t) THEN "bot_timing"
    ELSE IF FieldCrash(endpoint, payload) THEN "crash"
    ELSE IF FieldErrors(endpoint, payload) # {} THEN "validation"
    ELSE IF SanitizeCrash(endpoint, payload) THEN "crash"
    ELSE IF ok THEN "sent"
    ELSE "send_failed"

\* The outcomes answered by Flask's error handling and not by a return of
\* the handler: BadRequest from get_json (400) and an uncaught exception
\* (500). Their responses are no JSON of the handler and carry no token.
Raised == {"bad_json", "crash"}

\* The outcomes in which the handler has read the fields of the form.
FieldsRead == {"crash", "validation", "sent", "send_failed"}

\* The status code of the response.
StatusOf(reason) ==
    CASE reason = "rate_limited" -> 429
      [] reason \in {"format", "bad_json", "honeypot", "csrf", "bot_timing", "validation"} -> 400
      [] reason = "sent" -> 200
      [] reason \in {"send_failed", "crash"} -> 500

\* The length of the run of POSTs not answered 429 that a POST of this
\* endpoint and identity at time t continues: the POSTs of the run are the
\* last ones handled, all of this endpoint and identity, the first of them at
\* most RATE_LIMIT_WINDOW seconds before t.
StreakFor(endpoint, ip, t) ==
    IF streak.endpoint = endpoint /\ streak.ip = ip /\ t - streak.since <= WindowTicks
    THEN streak.count
    ELSE 0

\* The outcomes in which the handler rejected the submission for its token,
\* its timing or its fields.
Rejections == {"csrf", "bot_timing", "validation"}

\* Whether every POST of that run was rejected for its token, its timing or
\* its fields.
RejectedFor(endpoint, ip, t) == StreakFor(endpoint, ip, t) = 0 \/ streak.rejected

StreakAfter(endpoint, ip, t, reason) ==
    LET n == StreakFor(endpoint, ip, t)
        rejected == RejectedFor(endpoint, ip, t) /\ reason \in Rejections
    IN  IF n = 0
        THEN [endpoint |-> endpoint, ip |-> ip, count |-> 1, since |-> t,
              rejected |-> rejected]
        ELSE [streak EXCEPT !.count = IF n >= RATE_LIMIT_MAX THEN n ELSE n + 1,
                            !.rejected = rejected]

\* The tokens a submission supplies: none, the one of the session, the one
\* issued before it.
SuppliedTokens == {NoToken} \cup {k \in {jar.csrf_token - 1, jar.csrf_token} : k > 0}

\* The response to a POST and the state it leaves: ip, body, token and
\* payload are the request, ok is the answer of the notifier.
Respond(endpoint, ip, body, token, payload, ok) ==
    LET consulted == LimiterConsulted(endpoint, ip)
        r == IF consulted THEN is_rate_limited(request_log[ip], now)
             ELSE [limited |-> FALSE, window |-> request_log[ip]]
        reason == Outcome(endpoint, body, payload, token, jar, r.limited, now, ok)
        reissued == reason \notin Raised
        fresh == jar.csrf_token + 1
        notified == reason \in {"sent", "send_failed"}
    IN  /\ request_log' = [request_log EXCEPT ![ip] = r.window]
        /\ jar' = IF reissued THEN [issue_csrf_token(fresh, now) EXCEPT !.by = IF reason = "sent" THEN "sent" ELSE "error"]
                  ELSE jar
        /\ streak' = IF reason = "rate_limited" THEN streak
                     ELSE StreakAfter(endpoint, ip, now, reason)
        /\ spent' = spent \cup ({jar.csrf_token} \ {NoToken})
        /\ last' = [seq |-> last.seq + 1, method |-> "POST", endpoint |-> endpoint,
                    ip |-> ip, body |-> body, payload |-> payload,
                    token |-> token, sess |-> jar, at |-> now,
                    consulted |-> consulted,
                    log_before |-> request_log[ip],
                    streak_before |-> StreakFor(endpoint, ip, now),
                    reused |-> token \in spent,
                    rejected_before |-> RejectedFor(endpoint, ip, now),
                    status |-> StatusOf(reason), success |-> reason = "sent",
                    reason |-> reason,
                    csrf_token |-> IF reissued THEN fresh ELSE NoToken,
                    errors |-> IF reason = "validation"
                               THEN FieldErrors(endpoint, payload) ELSE {},
                    notified |-> notified,
                    mail |-> IF notified THEN safe_payload(endpoint, payload)
                             ELSE NoMail]

\* The payloads of each form.
CorePayloadsOf == [e \in Endpoints |-> CorePayloads(e)]
PayloadsOf == [e \in Endpoints |-> Payloads(e)]

\* Whether a JSON submission with this token would have its fields read: it
\* passes the token check and the timing check (the honeypot being empty).
ReadsFields(token) == ~TokenMismatch(token, jar) /\ ~TooQuick(jar, now)

\* The error answers after which a plain POST is tried at any later time.
Retried == {"format", "honeypot", "validation", "send_failed"}

\* POST to a submission endpoint: apply_simple_rate_limit, then the handler,
\* up to the response. The plain POST is a JSON object with valid fields, an
\* empty honeypot and any token, the notifier answering ok; plain POSTs come
\* in bursts of one endpoint and identity: one follows a page view, or a POST
\* of its own endpoint and identity handled at the same reading of the clock,
\* or, as a retry at any time, one answered with an error of Retried.
\* Of the others: a body that is not a JSON object has no payload and no
\* token; the payloads beyond the core ones are tried in the requests whose
\* fields the handler reads, and the notifier may fail when it is called.
Handle(endpoint) ==
    /\ last.seq < MaxRequests
    /\ \E ip \in Identities :
        \/ /\ last.method = "POST" =>
                 /\ last.endpoint = endpoint
                 /\ last.ip = ip
                 /\ last.at = now \/ last.reason \in Retried
           /\ \E token \in SuppliedTokens :
                 Respond(endpoint, ip, "json", token, ValidPayload[endpoint], TRUE)
           /\ UNCHANGED varied
        \/ /\ varied < MaxVaried
           /\ varied' = varied + 1
           /\ \/ \E body \in Bodies \ {"json"} :
                    Respond(endpoint, ip, body, NoToken, NoPayload, TRUE)
              \/ \E token \in SuppliedTokens :
                    \E payload \in (IF ReadsFields(token) THEN PayloadsOf[endpoint]
                                    ELSE CorePayloadsOf[endpoint]) :
                       /\ payload # ValidPayload[endpoint]
                       /\ Respond(endpoint, ip, "json", token, payload, TRUE)
              \/ \E token \in SuppliedTokens :
                    /\ ReadsFields(token)
                    /\ \E payload \in PayloadsOf[endpoint] :
                          /\ Outcome(endpoint, "json", payload, token, jar, FALSE, now, FALSE)
                                = "send_failed"
                          /\ Respond(endpoint, ip, "json", token, payload, FALSE)
    /\ UNCHANGED <<now, advances, views>>
    /\ UNCHANGED <<seqVars, concVars>>

request_care == Handle("request_care")

submit_appointment == Handle("submit_appointment")

\* GET of a page: index, contact and appointment issue a token, team and
\* thank_you do not; the hook lets every GET pass.
PageView ==
    /\ views < MaxViews
    /\ views' = views + 1
    /\ \E page \in Pages :
        LET fresh == jar.csrf_token + 1
            issues == page \in FormPages
        IN  /\ jar' = IF issues THEN [issue_csrf_token(fresh, now) EXCEPT !.by = "view"]
                      ELSE jar
            /\ last' = [NoRequest EXCEPT !.seq = last.seq, !.method = "GET",
                           !.endpoint = page, !.sess = jar, !.at = now,
                           !.status = 200,
                           !.csrf_token = IF issues THEN fresh ELSE NoToken]
    /\ UNCHANGED <<streak, varied, spent>>
    /\ UNCHANGED <<limiterVars, seqVars, concVars>>

\* Clock steps between requests: one tick less than the minimum fill time,
\* the minimum fill time, and one tick more than the window.
PipeClockSteps == {MinFillTicks - 1, MinFillTicks, WindowTicks + 1}

AdvancePipe == Advance(PipeClockSteps, MaxPipeAdvances, <<seqVars, concVars, pipeVars>>)

Next ==
    \/ AdvancePipe
    \/ PageView
    \/ request_care
    \/ submit_appointment

Spec == Init /\ [][Next]_vars

\* ------------------------------------------------------------------------
\* Properties of the submission endpoints
\* ------------------------------------------------------------------------
IsPost == last.method = "POST"

\* The last POST had a JSON object as body with the honeypot field of its
\* endpoint filled.
LastHoneypot == IsPost /\ last.body = "json" /\ Honeypot(last.endpoint, last.payload)

\* The outcomes of a submission that got past the token check.
PastTokenCheck == {"bot_timing", "crash", "validation", "sent", "send_failed"}

\* a is what is left of b after some of its oldest entries are dropped.
IsSuffix(a, b) == \E k \in 0..Len(b) : a = SubSeq(b, k + 1, Len(b))

\* The window of the last POST's identity holds what it held before the POST
\* less the entries dropped from its front, and then the time of the POST.
Recorded ==
    /\ request_log[last.ip] # <<>>
    /\ request_log[last.ip][Len(request_log[last.ip])] = last.at
    /\ IsSuffix(SubSeq(request_log[last.ip], 1, Len(request_log[last.ip]) - 1),
                last.log_before)

\* The window of the last POST's identity is as it was before the POST.
Untouched == request_log[last.ip] = last.log_before

\* The last POST was to /request-care from a non-empty identity.
CareFromKnown == last.endpoint = "request_care" /\ last.ip # NoIdentity

\* C3: every response of a submission endpoint carries a token issued during
\* the request, which is the token of the session after the response.
C3_EveryResponseReissues ==
    IsPost =>
        /\ last.csrf_token # NoToken
        /\ last.csrf_token # last.sess.csrf_token
        /\ last.csrf_token = jar.csrf_token

\* C4: once a submission has been answered, a later submission that supplies
\* the token the session held then does not get past the token check.
C4_TokenValidOnce ==
    (IsPost /\ last.reused) => last.reason \notin PastTokenCheck

\* C5: a submission with the session's token and an empty honeypot that the
\* limiter admits, sent less than MIN_FILL_SECONDS after the issuance of the
\* token, is rejected as bot-timing.
C5_FastSubmissionsRejected ==
    (/\ IsPost
     /\ last.body = "json"
     /\ ~Honeypot(last.endpoint, last.payload)
     /\ ~TokenMismatch(last.token, last.sess)
     /\ last.reason # "rate_limited"
     /\ last.at - last.sess.issued < MinFillTicks)
    => (last.reason = "bot_timing" /\ last.status = 400 /\ ~last.notified)

\* C6 as stated: handling a submission whose honeypot field is filled leaves
\* the window of its identity unchanged.
C6_HoneypotLeavesWindow == LastHoneypot => Untouched

\* C6 as amended: the limiter runs before the honeypot check. A honeypot
\* submission to /request-care from a non-empty identity is answered 429
\* with nothing recorded, or has its timestamp recorded and is rejected as
\* honeypot; to /submit-appointment, or from an empty identity, it is
\* rejected as honeypot and the window is unchanged.
C6_HoneypotAfterLimiter ==
    LastHoneypot =>
        IF CareFromKnown
        THEN \/ last.reason = "rate_limited" /\ IsSuffix(request_log[last.ip], last.log_before)
             \/ last.reason = "honeypot" /\ Recorded
        ELSE last.reason = "honeypot" /\ Untouched

\* A honeypot submission rejected as honeypot whose timestamp was recorded.
C6_Witness ==
    /\ LastHoneypot
    /\ last.reason = "honeypot"
    /\ request_log[last.ip] = Append(last.log_before, last.at)

\* C7: on both submission endpoints a POST from an identity that follows
\* RATE_LIMIT_MAX POSTs of that identity to that endpoint, admitted within
\* the window, is answered 429; a page view records nothing and is never
\* answered 429.
C7_BothEndpointsLimited ==
    /\ (IsPost /\ last.ip # NoIdentity /\ last.streak_before >= RATE_LIMIT_MAX)
          => last.status = 429
    /\ last.method = "GET" => last.status # 429

\* C8 as stated: a submission from an empty identity that follows
\* RATE_LIMIT_MAX admitted submissions from an empty identity within the
\* window is answered 429.
C8_EmptyIdentityLimited ==
    (/\ IsPost
     /\ last.endpoint = "request_care"
     /\ last.ip = NoIdentity
     /\ last.streak_before >= RATE_LIMIT_MAX)
    => last.status = 429

\* C8 as amended: submissions from an empty identity are never rate-limited:
\* nothing is ever recorded under the empty string and none is answered 429.
C8_EmptyIdentityNeverLimited ==
    /\ request_log[NoIdentity] = <<>>
    /\ (IsPost /\ last.ip = NoIdentity) => (last.status # 429 /\ ~last.consulted)

\* A submission to /request-care from an empty identity, not answered 429
\* after RATE_LIMIT_MAX others within the window.
C8_Witness ==
    /\ IsPost
    /\ last.endpoint = "request_care"
    /\ last.ip = NoIdentity
    /\ last.streak_before >= RATE_LIMIT_MAX
    /\ last.status # 429

\* C9 as stated: a POST whose body is not JSON is answered 400 and leaves
\* the window of its identity unchanged.
C9_NonJsonBeforeLimiter ==
    (IsPost /\ last.body = "nonjson") => (last.status = 400 /\ Untouched)

\* C9 as amended: the limiter runs before the format check. A POST whose
\* body is not JSON, to /request-care from a non-empty identity, is answered
\* 429 with nothing recorded, or has its timestamp recorded and is answered
\* 400 for its format; to /submit-appointment, or from an empty identity, it
\* is answered 400 for its format and the window is unchanged. No later
\* check decides its answer.
C9_NonJsonAfterLimiter ==
    (IsPost /\ last.body = "nonjson") =>
        IF CareFromKnown
        THEN \/ /\ last.status = 429
                /\ last.reason = "rate_limited"
                /\ IsSuffix(request_log[last.ip], last.log_before)
             \/ last.status = 400 /\ last.reason = "format" /\ Recorded
        ELSE last.status = 400 /\ last.reason = "format" /\ Untouched

\* A POST whose body is not JSON, answered 429 on a full window.
C9_Witness ==
    /\ IsPost
    /\ last.body = "nonjson"
    /\ last.status = 429
    /\ Len(last.log_before) = RATE_LIMIT_MAX

\* ------------------------------------------------------------------------
\* Further properties of the limiter under sequential calls (SpecSeq)
\* ------------------------------------------------------------------------
\* The entries of a window that are at most RATE_LIMIT_WINDOW seconds older
\* than the time t.
Kept(window, t) ==
    LET InWindow(x) == t - x <= WindowTicks
    IN  SelectSeq(window, InWindow)

\* C11: a call is rejected exactly when the window, less its entries older
\* than RATE_LIMIT_WINDOW seconds, holds RATE_LIMIT_MAX entries or more; a
\* rejected call leaves that window with nothing appended, an admitted call
\* leaves it with its own time appended at the end.
C11_RejectedRecordsNothing ==
    calls > 0 =>
        LET kept == Kept(lastCall.before, lastCall.at)
        IN  /\ lastCall.limited <=> Len(kept) >= RATE_LIMIT_MAX
            /\ request_log[lastCall.ip] =
                  IF lastCall.limited THEN kept ELSE Append(kept, lastCall.at)

\* A second rejection in a row, inside the window: the window is still the
\* one the first rejection left.
C11_Witness ==
    /\ calls > 0
    /\ lastCall.limited
    /\ lastCall.rejects >= 1
    /\ lastCall.at - Head(lastCall.before) < WindowTicks
    /\ request_log[lastCall.ip] = lastCall.before

\* C19: under sequential calls and a clock that never goes back, every
\* window holds at most RATE_LIMIT_MAX timestamps, oldest first, and after a
\* call no timestamp of the window of its identity is more than
\* RATE_LIMIT_WINDOW seconds older than the time of the call.
C19_WindowInvariants ==
    /\ \A ip \in Identities :
          /\ Len(request_log[ip]) <= RATE_LIMIT_MAX
          /\ \A i \in 1..(Len(request_log[ip]) - 1) :
                request_log[ip][i] <= request_log[ip][i + 1]
    /\ calls > 0 =>
          \A i \in 1..Len(request_log[lastCall.ip]) :
              lastCall.at - request_log[lastCall.ip][i] <= WindowTicks

\* A call that dropped the oldest entry of a window of several entries and
\* kept the others.
C19_Witness ==
    /\ calls > 0
    /\ ~lastCall.limited
    /\ Len(lastCall.before) >= 2
    /\ request_log[lastCall.ip] = Append(Tail(lastCall.before), lastCall.at)

\* ------------------------------------------------------------------------
\* Further properties of the submission endpoints (Spec)
\* ------------------------------------------------------------------------
\* A value that is absent or has nothing but whitespace.
IsBlank(v) == v.kind = "absent" \/ (v.kind = "str" /\ \A i \in 1..Len(v.s) : IsSpace(v.s[i]))

\* The errors a payload calls for: an entry for each required field that is
\* blank, and one for the email when it is not blank and is no address.
ExpectedErrors(endpoint, payload) ==
    {<<f, "required">> : f \in {g \in Required[endpoint] : IsBlank(payload[g])}}
    \cup (IF /\ payload["email"].kind = "str"
             /\ ~IsBlank(payload["email"])
             /\ ~EMAIL_REGEX(strip(payload["email"].s))
          THEN {<<"email", "format">>}
          ELSE {})

\* The last POST was a JSON object whose honeypot field has a value.
HoneypotFilled ==
    IsPost /\ last.body = "json" /\ Truthy(last.payload[HoneypotField(last.endpoint)])

\* The last POST supplied the token the session held.
TokenMatched == last.token # NoToken /\ last.token = last.sess.csrf_token

\* Time between the issuance of the session's token and the last POST.
Elapsed == last.at - last.sess.issued

\* C12: the notifier is invoked exactly when the honeypot is empty, the
\* limiter admitted the request, the supplied token is the session's, at
\* least MIN_FILL_SECONDS passed since its issuance and the payload calls for
\* no error; when it is not invoked no sanitized record is built.
C12_NotifiedIffAllPass ==
    IsPost =>
        /\ last.notified <=>
              /\ last.body = "json"
              /\ ~HoneypotFilled
              /\ last.reason # "rate_limited"
              /\ TokenMatched
              /\ Elapsed >= MinFillTicks
              /\ ExpectedErrors(last.endpoint, last.payload) = {}
        /\ ~last.notified => last.mail = NoMail

\* C13: a submission whose fields were validated is answered with the
\* validation errors exactly when its payload calls for one, and the errors
\* returned are all of them: one for each blank required field, one for a
\* malformed email.
C13_ErrorSetExact ==
    (IsPost /\ last.reason \in {"validation", "sent", "send_failed"}) =>
        LET expected == ExpectedErrors(last.endpoint, last.payload)
        IN  /\ last.reason = "validation" <=> expected # {}
            /\ last.reason = "validation" => last.errors = expected

\* A response with two errors at once, a missing field and a malformed email.
C13_Witness ==
    /\ IsPost
    /\ last.reason = "validation"
    /\ <<"email", "format">> \in last.errors
    /\ \E f \in Required[last.endpoint] : <<f, "required">> \in last.errors

\* C15: the status is 429 exactly when the limiter rejected, 400 exactly for
\* a rejection for format, honeypot, token, timing or validation, 200 exactly
\* when the notifier succeeded, 500 exactly when the notifier was invoked
\* and failed; success is true exactly with 200.
C15_StatusByOutcome ==
    IsPost =>
        /\ last.status = 429 <=> last.reason = "rate_limited"
        /\ last.status = 400 <=>
              last.reason \in {"format", "bad_json", "honeypot", "csrf", "bot_timing",
                               "validation"}
        /\ last.status = 200 <=> (last.notified /\ last.reason = "sent")
        /\ last.status = 500 <=> (last.notified /\ last.reason = "send_failed")
        /\ last.success <=> last.status = 200

\* C16: a submission whose honeypot field has a value is rejected and the
\* notifier is not invoked, whatever else it carries.
C16_HoneypotAlwaysRejected ==
    HoneypotFilled =>
        /\ ~last.success
        /\ ~last.notified
        /\ last.mail = NoMail
        /\ last.status \in {400, 429}

\* A honeypot submission rejected although its token matched, enough time
\* had passed, its fields were valid and the window had room.
C16_Witness ==
    /\ HoneypotFilled
    /\ last.reason = "honeypot"
    /\ TokenMatched
    /\ Elapsed >= MinFillTicks
    /\ ExpectedErrors(last.endpoint, last.payload) = {}
    /\ Len(last.log_before) < RATE_LIMIT_MAX

C18_NoEmptyRequiredInMail ==
    (IsPost /\ last.notified) =>
        \A f \in Required[last.endpoint] : last.mail[f] # <<>>

\* C14: a submission that supplies the token an error response returned, at
\* least MIN_FILL_SECONDS after that response, is rejected neither by the
\* token check nor by the timing check: when it is a JSON object with an
\* empty honeypot that the limiter lets pass, its fields are read.
C14_RetryAfterError ==
    (IsPost /\ last.sess.by = "error" /\ TokenMatched /\ Elapsed >= MinFillTicks) =>
        /\ last.reason \notin {"csrf", "bot_timing"}
        /\ (last.body = "json" /\ ~HoneypotFilled /\ last.reason # "rate_limited")
              => last.reason \in {"crash", "validation", "sent", "send_failed"}

\* A retry with the token of an error response, exactly MIN_FILL_SECONDS
\* after it, accepted.
C14_Witness ==
    /\ IsPost
    /\ last.sess.by = "error"
    /\ TokenMatched
    /\ Elapsed = MinFillTicks
    /\ last.reason = "sent"

\* C20: a POST to /request-care from a non-empty identity that the limiter
\* admits has its time recorded whatever the handler answers, so rejected
\* attempts count: on a window of RATE_LIMIT_MAX entries, and after a run of
\* RATE_LIMIT_MAX such POSTs within the window, the next is answered 429 and
\* not forwarded, valid or not.
C20_RejectedAttemptsCount ==
    (IsPost /\ CareFromKnown) =>
        /\ last.reason # "rate_limited"
              => request_log[last.ip] = Append(Kept(last.log_before, last.at), last.at)
        /\ (\/ Len(Kept(last.log_before, last.at)) >= RATE_LIMIT_MAX
            \/ last.streak_before >= RATE_LIMIT_MAX)
              => (last.reason = "rate_limited" /\ last.status = 429 /\ ~last.notified)

\* A fully valid submission answered 429 after RATE_LIMIT_MAX attempts that
\* were all rejected for their token, their timing or their fields.
C20_Witness ==
    /\ IsPost
    /\ CareFromKnown
    /\ last.streak_before = RATE_LIMIT_MAX
    /\ last.rejected_before
    /\ last.body = "json"
    /\ ~HoneypotFilled
    /\ TokenMatched
    /\ Elapsed >= MinFillTicks
    /\ ExpectedErrors(last.endpoint, last.payload) = {}
    /\ last.status = 429

====
